---- MODULE Spec2Model ----
(***************************************************************************)
(* The Addons>Resampler and Addons>ResamplerGrad CPU kernels of            *)
(* tensorflow_addons/custom_ops/image/cc/kernels/resampler_ops.cc.         *)
(*                                                                         *)
(* Numbers.  Every real of the program is a fixed-point rational whose     *)
(* denominator is a power of two, so that the float arithmetic of the code *)
(* is exact on it and the model computes what the code computes:           *)
(*   warp coordinates      numerators over Q                               *)
(*   kernel weights        numerators over WDen   = 2*Q^3                  *)
(*   forward output        numerators over OutDen = WDen^2                 *)
(*   grad_data             numerators over Q^2                             *)
(*   grad_warp             numerators over Q                               *)
(*   data, grad_output     integers                                        *)
(* A value may also be NaN, which every sum and product it enters returns  *)
(* (an infinite value behaves alike in what is modelled: inf * 0 is NaN).  *)
(* Tensors are records [shape, flat]; flat is the row-major buffer, and    *)
(* the element the code addresses as buf[i] is flat[i+1].                  *)
(***************************************************************************)
EXTENDS Integers, Sequences, FiniteSets, TLC

\* ------------------------------------------------------------------ bounds
MaxBatch == 2
MaxDim == 2
MaxSamples == 2
FracBits == 1

Q == 2 ^ FracBits
WDen == 2 * Q * Q * Q
OutDen == WDen * WDen

\* ------------------------------------------------------------- sequences
RECURSIVE Product(_)
Product(s) == IF s = <<>> THEN 1 ELSE Head(s) * Product(Tail(s))

Abs(n) == IF n < 0 THEN -n ELSE n

\* the not-a-number of the element type T: no finite value of the model
NaN == -(10 ^ 9)

\* T's +, - and *
FAdd(x, y) == IF x = NaN \/ y = NaN THEN NaN ELSE x + y
FSub(x, y) == IF x = NaN \/ y = NaN THEN NaN ELSE x - y
FMul(x, y) == IF x = NaN \/ y = NaN THEN NaN ELSE x * y

RECURSIVE SumTo(_, _)
\* res = zero; res += f[0]; ...; res += f[n-1]
SumTo(f, n) == IF n = 0 THEN 0 ELSE FAdd(SumTo(f, n - 1), f[n - 1])

\* Tensor::NumElements
NumElements(t) == Product(t.shape)

\* ------------------------------------------------------- kernel catalog
LowerAlpha ==
  << "a", "b", "c", "d", "e", "f", "g", "h", "i", "j", "k", "l", "m",
     "n", "o", "p", "q", "r", "s", "t", "u", "v", "w", "x", "y", "z" >>
UpperAlpha ==
  << "A", "B", "C", "D", "E", "F", "G", "H", "I", "J", "K", "L", "M",
     "N", "O", "P", "Q", "R", "S", "T", "U", "V", "W", "X", "Y", "Z" >>

\* absl::ascii_tolower on one character
AsciiToLower(c) ==
  IF \E i \in 1..26 : UpperAlpha[i] = c
  THEN LowerAlpha[CHOOSE i \in 1..26 : UpperAlpha[i] = c]
  ELSE c

\* absl::AsciiStrToLower: strings are sequences of characters
AsciiStrToLower(str) == [i \in 1..Len(str) |-> AsciiToLower(str[i])]

Name_lanczos1 == << "l", "a", "n", "c", "z", "o", "s", "1" >>
Name_lanczos3 == << "l", "a", "n", "c", "z", "o", "s", "3" >>
Name_lanczos5 == << "l", "a", "n", "c", "z", "o", "s", "5" >>
Name_gaussian == << "g", "a", "u", "s", "s", "i", "a", "n" >>
Name_box == << "b", "o", "x" >>
Name_triangle == << "t", "r", "i", "a", "n", "g", "l", "e" >>
Name_keyscubic == << "k", "e", "y", "s", "c", "u", "b", "i", "c" >>
Name_mitchellcubic ==
  << "m", "i", "t", "c", "h", "e", "l", "l", "c", "u", "b", "i", "c" >>

SamplingKernelTypeFromString_NoLower(str) ==
  CASE str = Name_lanczos1 -> "Lanczos1Kernel"
    [] str = Name_lanczos3 -> "Lanczos3Kernel"
    [] str = Name_lanczos5 -> "Lanczos5Kernel"
    [] str = Name_gaussian -> "GaussianKernel"
    [] str = Name_box -> "BoxKernel"
    [] str = Name_triangle -> "TriangleKernel"
    [] str = Name_keyscubic -> "KeysCubicKernel"
    [] str = Name_mitchellcubic -> "MitchellCubicKernel"
    [] OTHER -> "SamplingKernelTypeEnd"

SamplingKernelTypeFromString(str) ==
  LET lower_case == AsciiStrToLower(str)
  IN CASE lower_case = Name_lanczos1 -> "Lanczos1Kernel"
       [] lower_case = Name_lanczos3 -> "Lanczos3Kernel"
       [] lower_case = Name_lanczos5 -> "Lanczos5Kernel"
       [] lower_case = Name_gaussian -> "GaussianKernel"
       [] lower_case = Name_box -> "BoxKernel"
       [] lower_case = Name_triangle -> "TriangleKernel"
       [] lower_case = Name_keyscubic -> "KeysCubicKernel"
       [] lower_case = Name_mitchellcubic -> "MitchellCubicKernel"
       [] OTHER -> "SamplingKernelTypeEnd"

\* The kernels of tensorflow/core/kernels/image/sampling_kernels.h whose
\* weights are rational: numerator over WDen of the weight at offset d/Q.
KeysCubicKernelFunc(d) ==
  LET n == Abs(d)
  IN IF n >= 2 * Q THEN 0
     ELSE IF n >= Q
       THEN 4 * Q * Q * Q - 8 * Q * Q * n + 5 * Q * n * n - n * n * n
       ELSE 2 * Q * Q * Q - 5 * Q * n * n + 3 * n * n * n

TriangleKernelFunc(d) ==
  LET n == Abs(d) IN IF n < Q THEN 2 * Q * Q * (Q - n) ELSE 0

BoxKernelFunc(d) ==
  LET n == Abs(d)
  IN IF 2 * n < Q THEN WDen ELSE IF 2 * n = Q THEN Q * Q * Q ELSE 0

\* kernel(x) for the kernels above
KernelWeight(k, d) ==
  CASE k = "KeysCubicKernel" -> KeysCubicKernelFunc(d)
    [] k = "TriangleKernel" -> TriangleKernelFunc(d)
    [] k = "BoxKernel" -> BoxKernelFunc(d)

\* static_cast<int>(std::ceil(kernel.Radius()))
SpanSize(k) ==
  CASE k = "Lanczos1Kernel" -> 1
    [] k = "Lanczos3Kernel" -> 3
    [] k = "Lanczos5Kernel" -> 5
    [] k = "GaussianKernel" -> 2
    [] k = "BoxKernel" -> 1
    [] k = "TriangleKernel" -> 1
    [] k = "KeysCubicKernel" -> 2
    [] k = "MitchellCubicKernel" -> 2

\* The kernel the forward functor builds, whatever kernel_type it is given.
CreateKernel(kernel_type) == "KeysCubicKernel"

\* ------------------------------------------------------- shared geometry
\* data_shape.dim_size(i), 0-based
DimSize(shape, i) == shape[i + 1]

\* x > -1 && y > -1 && x < data_width && y < data_height
InWindow(x, y, data_width, data_height) ==
  x > -Q /\ y > -Q /\ x < data_width * Q /\ y < data_height * Q

\* std::floor of a coordinate
Floor(x) == x \div Q

PointIsInRange_Inclusive(x, y, data_width, data_height) ==
  x >= 0 /\ y >= 0 /\ x <= data_width /\ y <= data_height

PointIsInRange(x, y, data_width, data_height) ==
  x >= 0 /\ y >= 0 /\ x <= data_width - 1 /\ y <= data_height - 1

\* get_data_point with batch_id and the strides of the call
get_data_point_yx(data, batch_id, h, w, c, x, y, chan) ==
  IF PointIsInRange(x, y, w, h)
  THEN data[batch_id * (h * w * c) + c * (x * h + y) + chan + 1]
  ELSE 0

get_data_point(data, batch_id, h, w, c, x, y, chan) ==
  IF PointIsInRange(x, y, w, h)
  THEN data[batch_id * (h * w * c) + c * (y * w + x) + chan + 1]
  ELSE 0

\* the coordinates of sample sample_id of batch batch_id
WarpX(warp, batch_id, nsp, sample_id) == warp[batch_id * (nsp * 2) + sample_id * 2 + 1]
WarpY(warp, batch_id, nsp, sample_id) == warp[batch_id * (nsp * 2) + sample_id * 2 + 2]

\* ------------------------------------------------------- forward functor
\* the index set_output writes
OutputIndex_NoBatch(batch_id, output_batch_stride, sample_id, data_channels, channel) ==
  sample_id * data_channels + channel

OutputIndex(batch_id, output_batch_stride, sample_id, data_channels, channel) ==
  batch_id * output_batch_stride + sample_id * data_channels + channel

\* the double loop with inx, iny in [-1, 1] whatever the radius
InterpolateWith_Span1(krn, data, batch_id, h, w, c, x, y, chan) ==
  LET fx == Floor(x)
      fy == Floor(y)
      term(inx, iny) ==
        LET cx == fx + inx
            cy == fy + iny
            dx == cx * Q - x
            dy == cy * Q - y
        IN FMul(get_data_point(data, batch_id, h, w, c, cx, cy, chan),
                KernelWeight(krn, dx) * KernelWeight(krn, dy))
      row(inx) == SumTo([j \in 0..2 |-> term(inx, j - 1)], 3)
  IN SumTo([i \in 0..2 |-> row(i - 1)], 3)

\* res of one channel of one in-window sample: the double loop over
\* inx, iny in [-span_size, span_size]
InterpolateWith(krn, data, batch_id, h, w, c, x, y, chan) ==
  LET fx == Floor(x)
      fy == Floor(y)
      span_size == SpanSize(krn)
      n == 2 * span_size + 1
      term(inx, iny) ==
        LET cx == fx + inx
            cy == fy + iny
            dx == cx * Q - x
            dy == cy * Q - y
        IN FMul(get_data_point(data, batch_id, h, w, c, cx, cy, chan),
                KernelWeight(krn, dx) * KernelWeight(krn, dy))
      row(inx) == SumTo([j \in 0..(n - 1) |-> term(inx, j - span_size)], n)
  IN SumTo([i \in 0..(n - 1) |-> row(i - span_size)], n)

\* the value set_output receives for (sample_id, chan) of batch_id
SampleValue(krn, data, warp, a, batch_id, sample_id, chan) ==
  LET x == WarpX(warp, batch_id, a.num_sampling_points, sample_id)
      y == WarpY(warp, batch_id, a.num_sampling_points, sample_id)
  IN IF InWindow(x, y, a.data_width, a.data_height)
     THEN InterpolateWith(krn, data, batch_id, a.data_height, a.data_width,
                          a.data_channels, x, y, chan)
     ELSE 0

\* one iteration of the batch_id loop of resample_batches: the stores it makes
\* into output, as <<index, value, sample_id, chan>>
ResampleBatch(krn, data, warp, a, batch_id) ==
  { << OutputIndex(batch_id, a.num_sampling_points * a.data_channels,
                   sample_id, a.data_channels, chan),
       SampleValue(krn, data, warp, a, batch_id, sample_id, chan),
       sample_id, chan >> :
      sample_id \in 0..(a.num_sampling_points - 1),
      chan \in 0..(a.data_channels - 1) }

\* a buffer after a set of stores
Store(buf, stores) ==
  [i \in 1..Len(buf) |->
     IF \E st \in stores : st[1] = i - 1
     THEN (CHOOSE st \in stores : st[1] = i - 1)[2]
     ELSE buf[i]]

\* ------------------------------------------------------ backward functor
GradDataIndex_yx(batch_id, h, w, c, x, y, chan) ==
  batch_id * (h * w * c) + c * (x * h + y) + chan

GradDataIndex(batch_id, h, w, c, x, y, chan) ==
  batch_id * (h * w * c) + c * (y * w + x) + chan

GradWarpIndex(batch_id, warp_batch_stride, sample_id, channel) ==
  batch_id * warp_batch_stride + sample_id * 2 + channel

\* the += of one channel of one in-window sample, in program order, as
\* <<buffer, index, value>>; update_grad_data skips a corner out of range
ChannelUpdates(data, warp, grad_out, a, batch_id, sample_id, chan) ==
  LET h == a.data_height
      w == a.data_width
      c == a.data_channels
      nsp == a.num_sampling_points
      x == WarpX(warp, batch_id, nsp, sample_id)
      y == WarpY(warp, batch_id, nsp, sample_id)
      fx == Floor(x)
      fy == Floor(y)
      cx == fx + 1
      cy == fy + 1
      dx == cx * Q - x
      dy == cy * Q - y
      g == grad_out[batch_id * (nsp * c) + sample_id * c + chan + 1]
      img_fxfy == get_data_point(data, batch_id, h, w, c, fx, fy, chan)
      img_cxcy == get_data_point(data, batch_id, h, w, c, cx, cy, chan)
      img_fxcy == get_data_point(data, batch_id, h, w, c, fx, cy, chan)
      img_cxfy == get_data_point(data, batch_id, h, w, c, cx, fy, chan)
      corner(px, py, v) ==
        IF PointIsInRange(px, py, w, h)
        THEN << << "grad_data", GradDataIndex(batch_id, h, w, c, px, py, chan), v >> >>
        ELSE << >>
  IN << << "grad_warp", GradWarpIndex(batch_id, nsp * 2, sample_id, 0),
           FMul(g, FAdd(FMul(Q - dy, FSub(img_cxcy, img_fxcy)),
                        FMul(dy, FSub(img_cxfy, img_fxfy)))) >>,
        << "grad_warp", GradWarpIndex(batch_id, nsp * 2, sample_id, 1),
           FMul(g, FAdd(FMul(Q - dx, FSub(img_cxcy, img_cxfy)),
                        FMul(dx, FSub(img_fxcy, img_fxfy)))) >> >>
     \o corner(fx, fy, FMul(g, dx * dy))
     \o corner(cx, cy, FMul(g, (Q - dx) * (Q - dy)))
     \o corner(fx, cy, FMul(g, dx * (Q - dy)))
     \o corner(cx, fy, FMul(g, (Q - dx) * dy))

RECURSIVE SampleUpdates(_, _, _, _, _, _, _)
\* the channel loop of one sample, channels chan..data_channels-1
SampleUpdates(data, warp, grad_out, a, batch_id, sample_id, chan) ==
  IF chan >= a.data_channels THEN << >>
  ELSE ChannelUpdates(data, warp, grad_out, a, batch_id, sample_id, chan)
       \o SampleUpdates(data, warp, grad_out, a, batch_id, sample_id, chan + 1)

RECURSIVE BatchUpdates(_, _, _, _, _, _)
\* one iteration of the batch_id loop of update_grads_for_batches, samples
\* sample_id..num_sampling_points-1: an out-of-window sample updates nothing
BatchUpdates(data, warp, grad_out, a, batch_id, sample_id) ==
  IF sample_id >= a.num_sampling_points THEN << >>
  ELSE (IF InWindow(WarpX(warp, batch_id, a.num_sampling_points, sample_id),
                    WarpY(warp, batch_id, a.num_sampling_points, sample_id),
                    a.data_width, a.data_height)
        THEN SampleUpdates(data, warp, grad_out, a, batch_id, sample_id, 0)
        ELSE << >>)
       \o BatchUpdates(data, warp, grad_out, a, batch_id, sample_id + 1)

RECURSIVE Accumulate(_, _, _)
\* buf after the += of `ups` that are addressed to buffer `which`
Accumulate(buf, which, ups) ==
  IF ups = << >> THEN buf
  ELSE LET u == Head(ups)
       IN Accumulate(IF u[1] = which
                     THEN [buf EXCEPT ![u[2] + 1] = FAdd(@, u[3])]
                     ELSE buf,
                     which, Tail(ups))

\* ------------------------------------------- the indices the functors form
\* All are 0-based offsets from the pointer the functor was given.
\* the index get_data_point reads, for a point in range
DataPointIndex(batch_id, h, w, c, x, y, chan) ==
  batch_id * (h * w * c) + c * (y * w + x) + chan

\* the reads of warp in one iteration of the batch_id loop: x and y of every
\* sample
WarpReads(a, batch_id) ==
  { batch_id * (a.num_sampling_points * 2) + sample_id * 2 + k :
      sample_id \in 0..(a.num_sampling_points - 1), k \in { 0, 1 } }

\* the samples of batch_id that pass the window test
InWindowSamples(warp, a, batch_id) ==
  { sample_id \in 0..(a.num_sampling_points - 1) :
      InWindow(WarpX(warp, batch_id, a.num_sampling_points, sample_id),
               WarpY(warp, batch_id, a.num_sampling_points, sample_id),
               a.data_width, a.data_height) }

\* the reads of data by the forward functor in one iteration of the batch_id
\* loop: the candidates in range of every in-window sample
ForwardDataReads(krn, warp, a, batch_id) ==
  LET span_size == SpanSize(krn)
      nsp == a.num_sampling_points
  IN UNION { { DataPointIndex(batch_id, a.data_height, a.data_width, a.data_channels,
                              Floor(WarpX(warp, batch_id, nsp, sample_id)) + inx,
                              Floor(WarpY(warp, batch_id, nsp, sample_id)) + iny,
                              chan) :
                 chan \in 0..(a.data_channels - 1) } :
             << sample_id, inx, iny >> \in
               { t \in InWindowSamples(warp, a, batch_id)
                         \X ((-span_size)..span_size) \X ((-span_size)..span_size) :
                   PointIsInRange(Floor(WarpX(warp, batch_id, nsp, t[1])) + t[2],
                                  Floor(WarpY(warp, batch_id, nsp, t[1])) + t[3],
                                  a.data_width, a.data_height) } }

\* the stores of set_output in one iteration of the batch_id loop
OutputWrites(a, batch_id) ==
  { OutputIndex(batch_id, a.num_sampling_points * a.data_channels, sample_id,
                a.data_channels, chan) :
      sample_id \in 0..(a.num_sampling_points - 1),
      chan \in 0..(a.data_channels - 1) }

\* the reads of grad_output in one iteration of the batch_id loop
GradOutputReads(warp, a, batch_id) ==
  { batch_id * (a.num_sampling_points * a.data_channels)
      + sample_id * a.data_channels + chan :
      sample_id \in InWindowSamples(warp, a, batch_id),
      chan \in 0..(a.data_channels - 1) }

\* the corners in range of the in-window samples of batch_id: where the
\* backward functor reads data and where it adds to grad_data
CornerIndices(warp, a, batch_id) ==
  LET nsp == a.num_sampling_points
  IN UNION { { GradDataIndex(batch_id, a.data_height, a.data_width, a.data_channels,
                             Floor(WarpX(warp, batch_id, nsp, sample_id)) + ix,
                             Floor(WarpY(warp, batch_id, nsp, sample_id)) + iy,
                             chan) :
                 chan \in 0..(a.data_channels - 1) } :
             << sample_id, ix, iy >> \in
               { t \in InWindowSamples(warp, a, batch_id) \X { 0, 1 } \X { 0, 1 } :
                   PointIsInRange(Floor(WarpX(warp, batch_id, nsp, t[1])) + t[2],
                                  Floor(WarpY(warp, batch_id, nsp, t[1])) + t[3],
                                  a.data_width, a.data_height) } }

\* the elements of grad_warp that one iteration of the batch_id loop adds to
GradWarpWrites(warp, a, batch_id) ==
  { GradWarpIndex(batch_id, a.num_sampling_points * 2, sample_id, channel) :
      sample_id \in InWindowSamples(warp, a, batch_id), channel \in { 0, 1 } }

\* the element counts of the two memsets
GradDataSize(a) == a.data_height * a.data_width * a.data_channels * a.batch_size

GradWarpSize(a) ==
  ((a.batch_size * a.num_sampling_points * a.data_channels) \div a.data_channels) * 2

\* memset(buf, 0, sizeof(T) * size)
Memset(buf, size) == [i \in 1..Len(buf) |-> IF i <= size THEN 0 ELSE buf[i]]

\* ------------------------------------------------------------------ state
VARIABLES
  kind,             \* "Resampler" or "ResamplerGrad": the operator built
  kernel_type_str,  \* the kernel_type attribute
  kernel_type_,     \* ResamplerOp::kernel_type_
  data, warp, grad_output,          \* ctx->input(0..2)
  pc,               \* the statement the calling thread is at
  status,           \* the status of the construction, then of ctx
  checked,          \* the OP_REQUIRES of Compute evaluated so far
  output, grad_data, grad_warp,     \* the output tensors: <<>> until allocated
  allocated,        \* the outputs allocate_output has provided
  a,                \* the arguments of the functor call
  kernel,           \* the kernel the forward functor created
  dispatched,       \* the functor has been called
  zeroed,           \* the memsets of the backward functor have returned
  shards,           \* the ranges ParallelFor runs, with the next batch_id of each
  writers,          \* per output element, the shards that stored into it
  nstores           \* per element of output, the number of set_output stores

vars ==
  << kind, kernel_type_str, kernel_type_, data, warp, grad_output, pc, status,
     checked, output, grad_data, grad_warp, allocated, a, kernel, dispatched,
     zeroed, shards, writers, nstores >>

inputs == << kind, kernel_type_str, data, warp, grad_output >>

\* ----------------------------------------------------------------- inputs
Tensor(shape, flat) == [shape |-> shape, flat |-> flat]

NoTensor == Tensor(<< 0 >>, << >>)

\* pixel i (1-based, row-major) has value i: [[1,2],[3,4]] for a 2x2 image
Ramp(shape) == Tensor(shape, [i \in 1..Product(shape) |-> i])

\* zero everywhere but 1 at flat position p
Impulse(shape, p) ==
  Tensor(shape, [i \in 1..Product(shape) |-> IF i = p THEN 1 ELSE 0])

Ones(shape) == Tensor(shape, [i \in 1..Product(shape) |-> 1])

\* the ramp with a NaN at flat position p
RampWithNaN(shape, p) ==
  Tensor(shape, [i \in 1..Product(shape) |-> IF i = p THEN NaN ELSE i])

\* sample i (over all batches) is at (x0 + i*sx, y0 + i*sy)
ScanWarp(shape, x0, y0, sx, sy) ==
  Tensor(shape,
         [i \in 1..Product(shape) |->
            IF (i - 1) % 2 = 0 THEN x0 + ((i - 1) \div 2) * sx
                               ELSE y0 + ((i - 1) \div 2) * sy])

ToUpper(str) ==
  [i \in 1..Len(str) |->
     IF \E j \in 1..26 : LowerAlpha[j] = str[i]
     THEN UpperAlpha[CHOOSE j \in 1..26 : LowerAlpha[j] = str[i]]
     ELSE str[i]]

Capitalize(str) == [i \in 1..Len(str) |-> IF i = 1 THEN ToUpper(str)[1] ELSE str[i]]

RecognizedNames ==
  { Name_lanczos1, Name_lanczos3, Name_lanczos5, Name_gaussian, Name_box,
    Name_triangle, Name_keyscubic, Name_mitchellcubic }

KernelStrings ==
  RecognizedNames
    \cup { ToUpper(n) : n \in RecognizedNames }
    \cup { Capitalize(n) : n \in RecognizedNames }
    \cup { << >>, << "b", "o", "x", " " >>, << "k", "e", "y", "s" >>,
           << "l", "a", "n", "c", "z", "o", "s", "2" >>,
           << "b", "i", "l", "i", "n", "e", "a", "r" >>,
           << "c", "u", "b", "i", "c" >>, << "b", "0", "x" >> }

Channels == { 1, 2 }

DataShapes ==
  { << b, h, w, c >> : b \in 0..MaxBatch, h \in { 0, MaxDim },
                       w \in { 0, MaxDim }, c \in Channels }
    \cup { << 1, 1, 1 >> }

WarpShapes ==
  { << b, 2 >> : b \in 0..MaxBatch }
    \cup { << b, n, 2 >> : b \in 0..MaxBatch, n \in 0..MaxSamples }
    \cup { << 2 >>, << 1, 3 >> }

\* the shape the forward op gives its output
OutputShape(data_shape, warp_shape) ==
  [warp_shape EXCEPT ![Len(warp_shape)] = DimSize(data_shape, 3)]

GradOutputShapes(data_shape, warp_shape) ==
  IF Len(data_shape) = 4
  THEN { OutputShape(data_shape, warp_shape), warp_shape }
  ELSE { warp_shape }

Coords == (-(Q + 1))..(MaxDim * Q + 1)

Invocation(k, str, d, w, g) ==
  [kind |-> k, kernel_type_str |-> str, data |-> d, warp |-> w, grad_output |-> g]

\* every kernel_type string, on one image
KernelSweep ==
  { Invocation("Resampler", str, Ramp(<< 1, MaxDim, MaxDim, 1 >>),
               ScanWarp(<< 1, 2, 2 >>, Q \div 2, Q \div 2, Q \div 2, Q \div 2),
               NoTensor) :
      str \in KernelStrings }

\* every shape, with samples that leave the window
ShapeWarps(shape) ==
  { ScanWarp(shape, -Q, 0, Q, 0), ScanWarp(shape, Q \div 2, Q \div 2, Q, Q) }

ShapeSweep ==
  UNION { { Invocation("Resampler", Name_triangle, Ramp(ds), w, NoTensor) :
              w \in ShapeWarps(ws) }
            \cup
          { Invocation("ResamplerGrad", << >>, Ramp(ds), w, Ones(gs)) :
              w \in ShapeWarps(ws), gs \in GradOutputShapes(ds, ws) } :
          ds \in DataShapes, ws \in WarpShapes }

\* every coordinate, on the images that span the images of one shape
ValueShape == << 1, MaxDim, MaxDim, 1 >>

ValueImages ==
  { Ramp(ValueShape) }
    \cup { Impulse(ValueShape, p) : p \in 1..Product(ValueShape) }

\* images with one pixel that is not finite
NaNImages == { RampWithNaN(ValueShape, p) : p \in 1..Product(ValueShape) }

ValueSweep ==
  UNION { { Invocation("Resampler", Name_triangle, d,
                         ScanWarp(<< 1, 2 >>, x, y, 0, 0), NoTensor) :
              d \in ValueImages \cup NaNImages }
            \cup
          { Invocation("ResamplerGrad", << >>, d, ScanWarp(<< 1, 2 >>, x, y, 0, 0),
                       Ones(<< 1, 1 >>)) :
              d \in ValueImages } :
          x \in Coords, y \in Coords }

\* several batch elements, samples and channels, each with an upstream
\* gradient of its own
GradShape == << MaxBatch, MaxDim, MaxDim, 2 >>

GradSweep ==
  { Invocation("ResamplerGrad", << >>, Ramp(GradShape),
               ScanWarp(<< MaxBatch, MaxSamples, 2 >>, x, y, Q \div 2, Q \div 2),
               Ramp(<< MaxBatch, MaxSamples, 2 >>)) :
      x \in { -Q, -(Q \div 2), 0 }, y \in { -(Q \div 2), 0, Q \div 2 } }

Invocations == KernelSweep \cup ShapeSweep \cup ValueSweep \cup GradSweep

\* what a freshly allocated buffer may hold
Indeterminate == { 0, 77 }

NoArgs ==
  [batch_size |-> 0, data_height |-> 0, data_width |-> 0, data_channels |-> 0,
   num_sampling_points |-> 0]

NoWriters == [output |-> << >>, grad_data |-> << >>, grad_warp |-> << >>]

Init ==
  /\ \E inv \in Invocations :
       /\ kind = inv.kind
       /\ kernel_type_str = inv.kernel_type_str
       /\ data = inv.data
       /\ warp = inv.warp
       /\ grad_output = inv.grad_output
  /\ kernel_type_ = "unset"
  /\ pc = "construct"
  /\ status = "OK"
  /\ checked = { }
  /\ output = << >>
  /\ grad_data = << >>
  /\ grad_warp = << >>
  /\ allocated = { }
  /\ a = NoArgs
  /\ kernel = "none"
  /\ dispatched = FALSE
  /\ zeroed = FALSE
  /\ shards = << >>
  /\ writers = NoWriters
  /\ nstores = << >>

\* ----------------------------------------------------------- construction
\* the statements of Compute, in the order of the source
ComputeOrder_AllocFirst(k) ==
  IF k = "Resampler"
  THEN << "check_data_rank", "check_warp_matrix", "check_warp_last",
          "alloc_output", "check_batch", "run_guard" >>
  ELSE << "check_data_rank", "check_warp_matrix", "check_warp_last",
          "alloc_grad_data", "check_grad_shape", "alloc_grad_warp", "run_guard" >>

ComputeOrder(k) ==
  IF k = "Resampler"
  THEN << "check_data_rank", "check_warp_matrix", "check_warp_last",
          "check_batch", "alloc_output", "run_guard" >>
  ELSE << "check_data_rank", "check_warp_matrix", "check_warp_last",
          "check_grad_shape", "alloc_grad_data", "alloc_grad_warp", "run_guard" >>

\* the statement after `at`
NextPc(at) ==
  LET order == ComputeOrder(kind)
      i == CHOOSE j \in 1..Len(order) : order[j] = at
  IN order[i + 1]

\* OP_REQUIRES failed: the status is set and the function returns
Fail(st) ==
  /\ status' = st
  /\ pc' = "done"

\* ResamplerOp::ResamplerOp and ResamplerGradOp::ResamplerGradOp.  An operator
\* whose construction failed is never given to the executor.
Construct ==
  /\ pc = "construct"
  /\ IF kind = "Resampler"
     THEN /\ kernel_type_' = SamplingKernelTypeFromString(kernel_type_str)
          /\ IF kernel_type_' # "SamplingKernelTypeEnd"
             THEN pc' = Head(ComputeOrder(kind)) /\ status' = status
             ELSE pc' = "construction_failed" /\ status' = "InvalidArgument"
     ELSE /\ kernel_type_' = kernel_type_
          /\ pc' = Head(ComputeOrder(kind))
          /\ status' = status
  /\ UNCHANGED << inputs, checked, output, grad_data, grad_warp, allocated, a,
                  kernel, dispatched, zeroed, shards, writers, nstores >>

\* ------------------------------------------------------------------ Compute
Require(name, cond, st) ==
  /\ pc = name
  /\ checked' = checked \cup { name }
  /\ IF cond THEN pc' = NextPc(name) /\ status' = status ELSE Fail(st)
  /\ UNCHANGED << inputs, kernel_type_, output, grad_data, grad_warp, allocated,
                  a, kernel, dispatched, zeroed, shards, writers, nstores >>

\* data_shape.dims() == 4
CheckDataRank ==
  Require("check_data_rank", Len(data.shape) = 4, "Unimplemented")

\* TensorShapeUtils::IsMatrixOrHigher(warp_shape)
CheckWarpMatrix ==
  Require("check_warp_matrix", Len(warp.shape) >= 2, "InvalidArgument")

\* warp_shape.dim_size(warp_shape.dims() - 1) == 2
CheckWarpLast ==
  Require("check_warp_last", DimSize(warp.shape, Len(warp.shape) - 1) = 2,
          "Unimplemented")

\* data_shape.dim_size(0) == warp_shape.dim_size(0): the forward op only
CheckBatch ==
  Require("check_batch", DimSize(data.shape, 0) = DimSize(warp.shape, 0),
          "InvalidArgument")

\* grad_output_shape == resampler_output_shape: the backward op only
CheckGradShape ==
  Require("check_grad_shape",
          grad_output.shape = OutputShape(data.shape, warp.shape),
          "InvalidArgument")

\* OP_REQUIRES_OK(ctx, ctx->allocate_output(...)): the buffer holds whatever the
\* allocator left there, or the allocation fails
Allocate(name, buf, shape) ==
  /\ pc = name
  /\ \/ \E fill \in Indeterminate :
          /\ buf' = [i \in 1..Product(shape) |-> fill]
          /\ allocated' = allocated \cup { name }
          /\ pc' = NextPc(name)
          /\ status' = status
     \/ /\ Fail("ResourceExhausted")
        /\ UNCHANGED << buf, allocated >>
  /\ UNCHANGED << inputs, kernel_type_, checked, a, kernel, dispatched, zeroed,
                  shards, writers, nstores >>

AllocOutput ==
  /\ Allocate("alloc_output", output, OutputShape(data.shape, warp.shape))
  /\ UNCHANGED << grad_data, grad_warp >>

AllocGradData ==
  /\ Allocate("alloc_grad_data", grad_data, data.shape)
  /\ UNCHANGED << output, grad_warp >>

AllocGradWarp ==
  /\ Allocate("alloc_grad_warp", grad_warp, warp.shape)
  /\ UNCHANGED << output, grad_data >>

\* if (data.NumElements() > 0 && warp.NumElements() > 0): the functor's
\* arguments, with num_sampling_points = warp.NumElements() / batch_size / 2
FunctorArgs ==
  LET batch_size == DimSize(data.shape, 0)
  IN [batch_size |-> batch_size,
      data_height |-> DimSize(data.shape, 1),
      data_width |-> DimSize(data.shape, 2),
      data_channels |-> DimSize(data.shape, 3),
      num_sampling_points |-> (NumElements(warp) \div batch_size) \div 2]

RunGuard ==
  /\ pc = "run_guard"
  /\ IF NumElements(data) > 0 /\ NumElements(warp) > 0
     THEN a' = FunctorArgs /\ pc' = "functor"
     ELSE a' = a /\ pc' = "done"
  /\ UNCHANGED << inputs, kernel_type_, status, checked, output, grad_data,
                  grad_warp, allocated, kernel, dispatched, zeroed, shards,
                  writers, nstores >>

\* ----------------------------------------------------------- the functors
\* Resampler2DFunctor<CPUDevice, T>::operator(), up to ParallelFor: the kernel
\* is created
ForwardSetup ==
  /\ pc = "functor"
  /\ kind = "Resampler"
  /\ kernel' = CreateKernel(kernel_type_)
  /\ dispatched' = TRUE
  /\ pc' = "parallel_for"
  /\ UNCHANGED << inputs, kernel_type_, status, checked, output, grad_data,
                  grad_warp, allocated, a, zeroed, shards, writers, nstores >>

\* ResamplerGrad2DFunctor<CPUDevice, T>::operator(), up to ParallelFor: the two
\* memsets
GradMemset ==
  /\ pc = "functor"
  /\ kind = "ResamplerGrad"
  /\ LET resampler_output_size ==
           a.batch_size * a.num_sampling_points * a.data_channels
         grad_warp_size == (resampler_output_size \div a.data_channels) * 2
         grad_data_size ==
           a.data_height * a.data_width * a.data_channels * a.batch_size
     IN /\ grad_data' = Memset(grad_data, grad_data_size)
        /\ grad_warp' = Memset(grad_warp, grad_warp_size)
  /\ zeroed' = TRUE
  /\ dispatched' = TRUE
  /\ pc' = "parallel_for"
  /\ UNCHANGED << inputs, kernel_type_, status, checked, output, allocated, a,
                  kernel, shards, writers, nstores >>

\* the k-th smallest element of a set of numbers
Nth(S, k) == CHOOSE x \in S : Cardinality({ y \in S : y < x }) = k - 1

\* the contiguous ranges that the cut points make of [0, total)
Partition(total, cuts) ==
  LET bs == cuts \cup { 0, total }
  IN [k \in 1..(Cardinality(bs) - 1) |->
        [start |-> Nth(bs, k), limit |-> Nth(bs, k + 1), next |-> Nth(bs, k)]]

\* thread_pool->ParallelFor(batch_size, cost, fn): the pool splits
\* [0, batch_size) into contiguous ranges of its choice
ParallelFor ==
  /\ pc = "parallel_for"
  /\ \E cuts \in SUBSET (1..(a.batch_size - 1)) :
       shards' = Partition(a.batch_size, cuts)
  /\ writers' = [output |-> [i \in 1..Len(output) |-> { }],
                 grad_data |-> [i \in 1..Len(grad_data) |-> { }],
                 grad_warp |-> [i \in 1..Len(grad_warp) |-> { }]]
  /\ nstores' = [i \in 1..Len(output) |-> 0]
  /\ pc' = "sharded"
  /\ UNCHANGED << inputs, kernel_type_, status, checked, output, grad_data,
                  grad_warp, allocated, a, kernel, dispatched, zeroed >>

\* shard k runs one iteration of the batch_id loop of resample_batches
ResampleBatches(k) ==
  /\ pc = "sharded"
  /\ kind = "Resampler"
  /\ shards[k].next < shards[k].limit
  /\ LET stores == ResampleBatch(kernel, data.flat, warp.flat, a, shards[k].next)
     IN /\ output' = Store(output, stores)
        /\ writers' =
             [writers EXCEPT !.output =
                [i \in 1..Len(output) |->
                   IF \E st \in stores : st[1] = i - 1 THEN @[i] \cup { k } ELSE @[i]]]
        /\ nstores' =
             [i \in 1..Len(output) |->
                nstores[i] + Cardinality({ st \in stores : st[1] = i - 1 })]
  /\ shards' = [shards EXCEPT ![k].next = @ + 1]
  /\ UNCHANGED << inputs, kernel_type_, pc, status, checked, grad_data, grad_warp,
                  allocated, a, kernel, dispatched, zeroed >>

\* the indices of buffer `which` that the updates touch
Touched(which, ups) == { ups[j][2] : j \in { i \in 1..Len(ups) : ups[i][1] = which } }

\* shard k runs one iteration of the batch_id loop of update_grads_for_batches
UpdateGradsForBatches(k) ==
  /\ pc = "sharded"
  /\ kind = "ResamplerGrad"
  /\ shards[k].next < shards[k].limit
  /\ LET ups == BatchUpdates(data.flat, warp.flat, grad_output.flat, a,
                             shards[k].next, 0)
     IN /\ grad_data' = Accumulate(grad_data, "grad_data", ups)
        /\ grad_warp' = Accumulate(grad_warp, "grad_warp", ups)
        /\ writers' =
             [writers EXCEPT
                !.grad_data =
                  [i \in 1..Len(grad_data) |->
                     IF i - 1 \in Touched("grad_data", ups) THEN @[i] \cup { k } ELSE @[i]],
                !.grad_warp =
                  [i \in 1..Len(grad_warp) |->
                     IF i - 1 \in Touched("grad_warp", ups) THEN @[i] \cup { k } ELSE @[i]]]
  /\ shards' = [shards EXCEPT ![k].next = @ + 1]
  /\ UNCHANGED << inputs, kernel_type_, pc, status, checked, output, allocated, a,
                  kernel, dispatched, zeroed, nstores >>

\* ParallelFor returns when every range has been run; Compute returns
Join ==
  /\ pc = "sharded"
  /\ \A k \in 1..Len(shards) : shards[k].next = shards[k].limit
  /\ pc' = "done"
  /\ UNCHANGED << inputs, kernel_type_, status, checked, output, grad_data,
                  grad_warp, allocated, a, kernel, dispatched, zeroed, shards,
                  writers, nstores >>

Next ==
  \/ Construct
  \/ CheckDataRank
  \/ CheckWarpMatrix
  \/ CheckWarpLast
  \/ CheckBatch
  \/ CheckGradShape
  \/ AllocOutput
  \/ AllocGradData
  \/ AllocGradWarp
  \/ RunGuard
  \/ ForwardSetup
  \/ GradMemset
  \/ ParallelFor
  \/ \E k \in 1..Len(shards) : ResampleBatches(k)
  \/ \E k \in 1..Len(shards) : UpdateGradsForBatches(k)
  \/ Join

Spec == Init /\ [][Next]_vars

\* ================================================================= claims
\* The claims read the tensors by their shapes, NHWC and [batch, ..., 2], not by
\* the strides the functors compute.
Height == DimSize(data.shape, 1)
Width == DimSize(data.shape, 2)
NumChannels == DimSize(data.shape, 3)

\* the samples of warp, numbered row-major over all its leading dimensions
SampleIds == 0..((Product(warp.shape) \div 2) - 1)
SampleX(j) == warp.flat[2 * j + 1]
SampleY(j) == warp.flat[2 * j + 2]

\* the samples of one batch element, when warp has the batch size of data
SamplesPerBatch == (Product(warp.shape) \div 2) \div DimSize(warp.shape, 0)
BatchOf(j) == j \div SamplesPerBatch

\* image[b, y, x, c]
Pixel(b, y, x, c) == data.flat[((b * Height + y) * Width + x) * NumChannels + c + 1]

\* x <= -1 or y <= -1 or x >= width or y >= height
OutsideWindow(j) ==
  \/ SampleX(j) <= -Q
  \/ SampleY(j) <= -Q
  \/ SampleX(j) >= Width * Q
  \/ SampleY(j) >= Height * Q

\* no pixel of the image is NaN
FiniteImage == \A p \in 1..Len(data.flat) : data.flat[p] # NaN

ForwardCompleted == pc = "done" /\ kind = "Resampler" /\ status = "OK"
BackwardCompleted == pc = "done" /\ kind = "ResamplerGrad" /\ status = "OK"

\* C1: when the forward op completes without error, every channel of the
\* output of every sample outside the validity window is exactly zero,
\* images of height or width 0 included.
C1_OutsideWindowIsZero ==
  ForwardCompleted =>
    \A j \in SampleIds : \A c \in 0..(NumChannels - 1) :
      OutsideWindow(j) => output[j * NumChannels + c + 1] = 0

\* The part of C1 that the code keeps: the same, for the invocations in which
\* the functor was run.
C1_OutsideWindowIsZeroWhenRun ==
  (ForwardCompleted /\ dispatched) =>
    \A j \in SampleIds : \A c \in 0..(NumChannels - 1) :
      OutsideWindow(j) => output[j * NumChannels + c + 1] = 0

\* the offsets at which a weight function is compared
Offsets == (-(3 * Q))..(3 * Q)
RationalKernels == { "KeysCubicKernel", "TriangleKernel", "BoxKernel" }

\* C2: the radius and the weight function the forward functor uses are those
\* of the kernel resolved from kernel_type.
C2_KernelSelectionEffective ==
  (kind = "Resampler" /\ dispatched) =>
    /\ SpanSize(kernel) = SpanSize(kernel_type_)
    /\ kernel_type_ \in RationalKernels =>
         \A d \in Offsets : KernelWeight(kernel, d) = KernelWeight(kernel_type_, d)

\* every shape requirement but the equality of the batch sizes holds
ShapesFitButBatch ==
  /\ Len(data.shape) = 4
  /\ Len(warp.shape) >= 2
  /\ DimSize(warp.shape, Len(warp.shape) - 1) = 2
  /\ kind = "ResamplerGrad" => grad_output.shape = OutputShape(data.shape, warp.shape)

BatchMismatch == ShapesFitButBatch /\ DimSize(data.shape, 0) # DimSize(warp.shape, 0)

\* C3: in both ops, data and warp of different batch sizes end the invocation
\* with an invalid-argument failure, and the functor is never run (an
\* invocation that the allocator fails is not held against the claim).
C3_BatchMismatchIsRejected ==
  BatchMismatch =>
    /\ ~dispatched
    /\ (pc = "done" /\ status # "ResourceExhausted") => status = "InvalidArgument"

\* The part of C3 that the code keeps: the forward op.
C3_ForwardRejectsBatchMismatch ==
  (BatchMismatch /\ kind = "Resampler") =>
    /\ ~dispatched
    /\ pc = "done" => status = "InvalidArgument"

\* the four corners of sample j are pixels of the image
CornersInBounds(j) ==
  /\ 0 <= Floor(SampleX(j)) /\ Floor(SampleX(j)) + 1 <= Width - 1
  /\ 0 <= Floor(SampleY(j)) /\ Floor(SampleY(j)) + 1 <= Height - 1

\* the forward functor's value for channel c of sample j, on image `img`
ForwardValue(img, j, c) ==
  SampleValue(CreateKernel(kernel_type_), img, warp.flat, FunctorArgs,
              BatchOf(j), j % SamplesPerBatch, c)

\* upstream gradient 1 on one channel of one sample, 0 elsewhere
UnitGradAt(e) ==
  \A i \in 1..Len(grad_output.flat) :
    grad_output.flat[i] = (IF i = e THEN 1 ELSE 0)

\* C4 (the exact half): on a finite image, with upstream gradient 1 on channel
\* c of a sample j whose four corners are pixels of the image, raising one
\* source pixel p by 1 raises the forward output at (j, c) by grad_data[p].
C4_GradDataIsForwardDifference ==
  (/\ BackwardCompleted /\ dispatched /\ FiniteImage
   /\ DimSize(data.shape, 0) = DimSize(warp.shape, 0)) =>
    \A j \in SampleIds : \A c \in 0..(NumChannels - 1) :
      (UnitGradAt(j * NumChannels + c + 1) /\ CornersInBounds(j)) =>
        \A p \in 1..Len(data.flat) :
          (ForwardValue([data.flat EXCEPT ![p] = @ + 1], j, c)
             - ForwardValue(data.flat, j, c)) * (Q * Q)
            = grad_data[p] * OutDen

\* x and y of sample j are integers inside the image
AtPixelCentre(j) ==
  /\ SampleX(j) % Q = 0
  /\ SampleY(j) % Q = 0
  /\ 0 <= SampleX(j) /\ SampleX(j) < Width * Q
  /\ 0 <= SampleY(j) /\ SampleY(j) < Height * Q

FiniteNeighbourhood(j, c) ==
  \A ix \in (-2)..2 : \A iy \in (-2)..2 :
    LET px == Floor(SampleX(j)) + ix
        py == Floor(SampleY(j)) + iy
    IN (0 <= px /\ px < Width /\ 0 <= py /\ py < Height) =>
         Pixel(BatchOf(j), py, px, c) # NaN

Bilinear(j, c) ==
  LET fx == Floor(SampleX(j))
      fy == Floor(SampleY(j))
      dx == (fx + 1) * Q - SampleX(j)
      dy == (fy + 1) * Q - SampleY(j)
      b == BatchOf(j)
  IN dx * dy * Pixel(b, fy, fx, c)
       + (Q - dx) * (Q - dy) * Pixel(b, fy + 1, fx + 1, c)
       + dx * (Q - dy) * Pixel(b, fy + 1, fx, c)
       + (Q - dx) * dy * Pixel(b, fy, fx + 1, c)

\* C6: built with the bilinear-equivalent kernel (triangle: span 1, linear
\* weight), the forward output of a sample whose four corners are in bounds is
\* the bilinear combination of the corners; [[1,2],[3,4]] at (0.5, 0.5) gives 2.5.
C6_TriangleIsBilinear ==
  (ForwardCompleted /\ FiniteImage /\ kernel_type_ = "TriangleKernel") =>
    \A j \in SampleIds : \A c \in 0..(NumChannels - 1) :
      CornersInBounds(j) =>
        output[j * NumChannels + c + 1] * (Q * Q) = OutDen * Bilinear(j, c)

\* the += of the whole invocation, batch elements batch_id..batch_size-1
RECURSIVE AllUpdates(_)
AllUpdates(batch_id) ==
  IF batch_id >= a.batch_size THEN << >>
  ELSE BatchUpdates(data.flat, warp.flat, grad_output.flat, a, batch_id, 0)
       \o AllUpdates(batch_id + 1)

Zeros(n) == [i \in 1..n |-> 0]

\* C7: when the backward op completes without error (on data and warp of one
\* batch size), every element of grad_data and of grad_warp is zero plus the
\* contributions added to it in the invocation, so an element that received
\* none is zero.
C7_GradientsStartFromZero ==
  (BackwardCompleted /\ DimSize(data.shape, 0) = DimSize(warp.shape, 0)) =>
    /\ grad_data = Accumulate(Zeros(Product(data.shape)), "grad_data", AllUpdates(0))
    /\ grad_warp = Accumulate(Zeros(Product(warp.shape)), "grad_warp", AllUpdates(0))

\* The part of C7 that the code keeps: the same, when the functor was run.
C7_GradientsStartFromZeroWhenRun ==
  (BackwardCompleted /\ dispatched /\ DimSize(data.shape, 0) = DimSize(warp.shape, 0)) =>
    /\ grad_data = Accumulate(Zeros(Product(data.shape)), "grad_data", AllUpdates(0))
    /\ grad_warp = Accumulate(Zeros(Product(warp.shape)), "grad_warp", AllUpdates(0))

\* two strings are equal up to the case of their letters
EqualsIgnoringCase(s1, s2) ==
  /\ Len(s1) = Len(s2)
  /\ ToUpper(s1) = ToUpper(s2)

Recognized(str) == \E n \in RecognizedNames : EqualsIgnoringCase(str, n)

\* a shape requirement of the forward op is broken
ForwardShapeProblem ==
  \/ Len(data.shape) # 4
  \/ Len(warp.shape) < 2
  \/ DimSize(warp.shape, Len(warp.shape) - 1) # 2
  \/ DimSize(data.shape, 0) # DimSize(warp.shape, 0)

\* C8: the forward operator is built if and only if kernel_type is, up to
\* case, one of the eight recognized names; Compute never runs with the
\* unrecognized sentinel, and an error of Compute is an error of the shapes.
C8_BuiltIffRecognized ==
  (kind = "Resampler" /\ pc # "construct") =>
    /\ pc # "construction_failed" <=> Recognized(kernel_type_str)
    /\ pc = "construction_failed" =>
         /\ status = "InvalidArgument"
         /\ checked = { } /\ allocated = { } /\ ~dispatched
    /\ pc # "construction_failed" =>
         /\ kernel_type_ # "SamplingKernelTypeEnd"
         /\ status \in { "InvalidArgument", "Unimplemented" } => ForwardShapeProblem

\* the forward op has run to completion on an operator built from a name
\* that is not written in lower case
C8_Witness ==
  /\ ForwardCompleted
  /\ dispatched
  /\ kernel_type_str \notin RecognizedNames
  /\ kernel_type_ = "MitchellCubicKernel"

ShapeChecks ==
  IF kind = "Resampler"
  THEN { "check_data_rank", "check_warp_matrix", "check_warp_last", "check_batch" }
  ELSE { "check_data_rank", "check_warp_matrix", "check_warp_last", "check_grad_shape" }

ShapeErrors == { "InvalidArgument", "Unimplemented" }

\* C9: in both ops every shape check is evaluated before any output is
\* allocated and before the functor is called: after a failed check nothing
\* is allocated, the functor is not called and no element is written, and
\* once the functor has been called the status stays OK.
C9_ChecksBeforeAllocation ==
  /\ status \in ShapeErrors =>
       /\ allocated = { } /\ ~dispatched
       /\ output = << >> /\ grad_data = << >> /\ grad_warp = << >>
       /\ writers = NoWriters
  /\ (allocated # { } \/ dispatched) => ShapeChecks \subseteq checked
  /\ dispatched => status = "OK"

\* C9, the order in time: an allocation or the call of the functor is never
\* followed by the evaluation of a check, nor by an error of the shapes.
C9_NoCheckAfterAllocation ==
  [][(allocated # { } \/ dispatched) =>
       (checked' = checked /\ status' \notin ShapeErrors)]_vars

\* the last shape check of the backward op has failed after the others passed
C9_Witness ==
  /\ pc = "done"
  /\ kind = "ResamplerGrad"
  /\ status = "InvalidArgument"
  /\ checked = ShapeChecks

\* the elements some shard has stored into
Written(buf) == { i \in 1..Len(buf) : buf[i] # { } }

\* C10: whatever contiguous ranges the pool makes of [0, batch_size) and
\* however it interleaves them, no element of output, grad_data or grad_warp
\* is stored into by two shards, every element of the forward output is
\* stored exactly once, and the gradients are zeroed before the first +=.
C10_ShardsOwnTheirElements ==
  /\ \A i \in 1..Len(writers.output) : Cardinality(writers.output[i]) <= 1
  /\ \A i \in 1..Len(writers.grad_data) : Cardinality(writers.grad_data[i]) <= 1
  /\ \A i \in 1..Len(writers.grad_warp) : Cardinality(writers.grad_warp[i]) <= 1
  /\ (ForwardCompleted /\ dispatched) =>
       /\ Len(nstores) = Product(OutputShape(data.shape, warp.shape))
       /\ \A i \in 1..Len(nstores) : nstores[i] = 1
  /\ (Written(writers.grad_data) # { } \/ Written(writers.grad_warp) # { }) => zeroed
  /\ pc = "sharded" =>
       /\ shards[1].start = 0
       /\ shards[Len(shards)].limit = a.batch_size
       /\ \A k \in 1..Len(shards) : shards[k].start < shards[k].limit
       /\ \A k \in 1..(Len(shards) - 1) : shards[k].limit = shards[k + 1].start

\* two shards have both stored into the forward output, the second one first
C10_Witness ==
  /\ pc = "sharded"
  /\ kind = "Resampler"
  /\ Len(shards) = 2
  /\ shards[1].next = shards[1].start
  /\ shards[2].next = shards[2].limit
  /\ Written(writers.output) # { }

\* ------------------------------------------------------------------- C11
\* grad_output[b, s, c] of sample j = (b, s)
UpstreamGrad(j, c) == grad_output.flat[j * NumChannels + c + 1]

\* image[b, y, x, c], zero outside [0, width) x [0, height)
PaddedPixel(b, y, x, c) ==
  IF 0 <= x /\ x < Width /\ 0 <= y /\ y < Height THEN Pixel(b, y, x, c) ELSE 0

\* what sample j adds to grad_data[b, py, px, c], times Q^2
GradDataTerm(j, c, px, py) ==
  LET fx == Floor(SampleX(j))
      fy == Floor(SampleY(j))
      cx == fx + 1
      cy == fy + 1
      dx == cx * Q - SampleX(j)
      dy == cy * Q - SampleY(j)
      g == UpstreamGrad(j, c)
  IN IF OutsideWindow(j) THEN 0
     ELSE IF px = fx /\ py = fy THEN FMul(g, dx * dy)
     ELSE IF px = cx /\ py = cy THEN FMul(g, (Q - dx) * (Q - dy))
     ELSE IF px = fx /\ py = cy THEN FMul(g, dx * (Q - dy))
     ELSE IF px = cx /\ py = fy THEN FMul(g, (Q - dx) * dy)
     ELSE 0

\* what channel c of sample j adds to grad_warp[b, s, axis], times Q
GradWarpTerm(j, c, axis) ==
  LET b == BatchOf(j)
      fx == Floor(SampleX(j))
      fy == Floor(SampleY(j))
      cx == fx + 1
      cy == fy + 1
      dx == cx * Q - SampleX(j)
      dy == cy * Q - SampleY(j)
      g == UpstreamGrad(j, c)
      I_ff == PaddedPixel(b, fy, fx, c)
      I_cc == PaddedPixel(b, cy, cx, c)
      I_fc == PaddedPixel(b, cy, fx, c)
      I_cf == PaddedPixel(b, fy, cx, c)
  IN IF OutsideWindow(j) THEN 0
     ELSE IF axis = 0
     THEN FMul(g, FAdd(FMul(Q - dy, FSub(I_cc, I_fc)), FMul(dy, FSub(I_cf, I_ff))))
     ELSE FMul(g, FAdd(FMul(Q - dx, FSub(I_cc, I_cf)), FMul(dx, FSub(I_fc, I_ff))))

\* what the samples of batch element b add to grad_data[bb, py, px, c]
GradDataSum(b, bb, py, px, c) ==
  IF bb # b THEN 0
  ELSE SumTo([s \in 0..(SamplesPerBatch - 1) |->
                GradDataTerm(b * SamplesPerBatch + s, c, px, py)], SamplesPerBatch)

\* what sample j adds to grad_warp[b, s, axis], over its channels
GradWarpSum(j, axis) ==
  SumTo([c \in 0..(NumChannels - 1) |-> GradWarpTerm(j, c, axis)], NumChannels)

\* the batch element a step of the backward loop has just run
BatchJustRun == CHOOSE b \in 0..(DimSize(data.shape, 0) - 1) :
                  \E k \in 1..Len(shards) : shards[k].next = b /\ shards'[k].next = b + 1

\* C11: when the backward loop runs batch element b (of data and warp of one
\* batch size), every element of grad_data and grad_warp grows by exactly what
\* the samples of b contribute under the bilinear formulas: nothing from a
\* sample outside the validity window, the four corner weights times g for the
\* corners inside the image, the two warp terms with out-of-bounds corners read
\* as zero, and nothing anywhere else.
C11_SampleContributions ==
  [][(/\ kind = "ResamplerGrad"
      /\ pc = "sharded"
      /\ shards' # shards
      /\ DimSize(data.shape, 0) = DimSize(warp.shape, 0)) =>
       LET b == BatchJustRun
       IN /\ \A bb \in 0..(DimSize(data.shape, 0) - 1) :
               \A py \in 0..(Height - 1) : \A px \in 0..(Width - 1) :
                 \A c \in 0..(NumChannels - 1) :
                   LET p == ((bb * Height + py) * Width + px) * NumChannels + c + 1
                   IN grad_data'[p] = FAdd(grad_data[p], GradDataSum(b, bb, py, px, c))
          /\ \A j \in SampleIds : \A axis \in { 0, 1 } :
               grad_warp'[2 * j + axis + 1]
                 = FAdd(grad_warp[2 * j + axis + 1],
                        IF BatchOf(j) = b THEN GradWarpSum(j, axis) ELSE 0)]_vars

\* the backward op completed on two batch elements with distinct upstream
\* gradients, with a sample outside the window and a sample inside it that has
\* a corner outside the image and a corner inside, and both batch elements
\* have received gradient
C11_Witness ==
  /\ BackwardCompleted
  /\ dispatched
  /\ DimSize(data.shape, 0) = MaxBatch
  /\ DimSize(warp.shape, 0) = MaxBatch
  /\ grad_output.flat[1] # grad_output.flat[2]
  /\ \E j \in SampleIds : OutsideWindow(j)
  /\ \E j \in SampleIds :
       /\ ~OutsideWindow(j)
       /\ ~PointIsInRange(Floor(SampleX(j)), Floor(SampleY(j)), Width, Height)
       /\ PointIsInRange(Floor(SampleX(j)) + 1, Floor(SampleY(j)) + 1, Width, Height)
       /\ grad_warp[2 * j + 1] # 0
  /\ grad_data[1] # 0
  /\ grad_data[Len(grad_data)] # 0

\* ------------------------------------------------------------------- C12
\* the sum over (i, jj) in [-span, span] x [-span, span] of
\* w((fx+i) - x) * w((fy+jj) - y) * P(fx+i, fy+jj, c), for sample j of batch
\* element b, with the weight function and radius of kernel `krn`
WeightedSum(krn, j, c) ==
  LET b == BatchOf(j)
      fx == Floor(SampleX(j))
      fy == Floor(SampleY(j))
      span == SpanSize(krn)
      n == 2 * span + 1
      term(i, jj) ==
        FMul(PaddedPixel(b, fy + jj, fx + i, c),
             KernelWeight(krn, (fx + i) * Q - SampleX(j))
               * KernelWeight(krn, (fy + jj) * Q - SampleY(j)))
      column(jj) == SumTo([k \in 0..(n - 1) |-> term(k - span, jj)], n)
  IN SumTo([k \in 0..(n - 1) |-> column(k - span)], n)

\* C12: when the forward op has run, the output of every in-window sample, in
\* every channel, is the sum over the (2 span + 1)^2 candidate pixels around
\* (floor(x), floor(y)) of the separable weight of the functor's kernel times
\* the pixel of the same batch element and channel, zero outside the image.
C12_OutputIsWeightedSum ==
  (ForwardCompleted /\ dispatched) =>
    \A j \in SampleIds : \A c \in 0..(NumChannels - 1) :
      ~OutsideWindow(j) =>
        output[j * NumChannels + c + 1] = WeightedSum(kernel, j, c)

\* the forward op completed on two batch elements of two channels, with a
\* sample of the second element in the window, off the pixel grid, with
\* candidates in the padding, whose two channels came out different
C12_Witness ==
  /\ ForwardCompleted
  /\ dispatched
  /\ DimSize(data.shape, 0) = MaxBatch
  /\ NumChannels = 2
  /\ \E j \in SampleIds :
       /\ BatchOf(j) = MaxBatch - 1
       /\ ~OutsideWindow(j)
       /\ ~CornersInBounds(j)
       /\ SampleX(j) % Q # 0
       /\ output[j * NumChannels + 1] # 0
       /\ output[j * NumChannels + 1] # output[j * NumChannels + 2]

\* ------------------------------------------------------------------- C13
\* every index of S is an element of a buffer of n elements
Within(S, n) == \A i \in S : 0 <= i /\ i < n

\* the functor has been given its arguments
FunctorCalled == pc \in { "functor", "parallel_for", "sharded" } \/ dispatched

====
